---------------------------- MODULE Spec2Model ----------------------------
(***************************************************************************)
(* Accurate Binary Convolution (ABC.ipynb): the filter binarization, the   *)
(* ApproxConv / ABC layer factories and their forward callables, and the   *)
(* custom graph with its training loop.                                    *)
(*                                                                         *)
(* Numbers are exact rationals <<numerator, denominator>> (denominator > 0,*)
(* lowest terms); float32 rounding is not modelled.  Tensors are flattened *)
(* to one dimension with a single input and output channel.                *)
(***************************************************************************)
EXTENDS Integers, Sequences, FiniteSets, TLC

VARIABLES
    bf_args,      \* arguments of the running get_binary_filters call
    bf_frame,     \* its locals: mean, stddev, spreaded_deviation, ...
    bf_result,    \* what the call produced: nothing yet, a tensor, an exception
    abc_args,     \* arguments of the ABC(...) call
    shift_parameters,   \* ABC: the shift_parameters Variable, index -> value
    betas,        \* ABC: the betas Variable, index -> value
    approx,       \* the ApproxConv instances built so far, in order
    abc_ret,      \* what ABC(...) produced: nothing yet, the triple, an exception
    call,         \* the last evaluation of a forward callable
    pc,           \* custom graph and training loop: the statement to run next
    trainable,    \* the graph's collection of trainable Variables
    initial_value,      \* Variable -> where its initial value comes from
    edges,        \* the dataflow of the graph, as far as gradients follow it
    var_list,     \* optimizer op -> the Variables it updates
    alphas_training_operations,   \* the list of that name
    val,          \* the session: Variable -> its current value
    epoch, iteration, op_index, alpha_epoch,    \* the loop variables
    batch,        \* the last mnist.train.next_batch
    X_batch,      \* the last mnist.validation.next_batch
    last_run,     \* the last sess.run: what was fetched and fed
    run_log,      \* the operations run since train_step last ran (or graph_init)
    fit           \* one ApproxConv on its own: its alphas and their optimizer

bfVars == <<bf_args, bf_frame, bf_result>>

layerVars == <<abc_args, shift_parameters, betas, approx, abc_ret, call>>

graphVars == <<trainable, initial_value, edges, var_list, alphas_training_operations>>

loopVars == <<epoch, iteration, op_index, alpha_epoch>>

fitVars == <<fit>>

wfVars == <<pc, trainable, initial_value, edges, var_list, alphas_training_operations,
            val, epoch, iteration, op_index, alpha_epoch, batch, X_batch, last_run,
            run_log>>

vars == <<bf_args, bf_frame, bf_result,
          abc_args, shift_parameters, betas, approx, abc_ret, call,
          pc, trainable, initial_value, edges, var_list, alphas_training_operations,
          val, epoch, iteration, op_index, alpha_epoch, batch, X_batch, last_run,
          run_log, fit>>

----------------------------------------------------------------------------
(* Bounds of the model.                                                    *)

MaxFilterLen == 2      \* a filter bank has 1..MaxFilterLen elements
MaxFilterValue == 2    \* its elements are integers in -MaxFilterValue..MaxFilterValue
MaxM == 3              \* no_filters ranges over 1..MaxM
MaxK == 2              \* no_ApproxConvLayers ranges over 0..MaxK
n_epochs == 2                  \* epochs of the training loop (5 in the notebook)
n_iterations == 2              \* training iterations per epoch (200 in the notebook)
alpha_training_epochs == 2     \* alpha steps per layer and round (200 in the notebook)
n_validation_iterations == 2   \* validation runs per epoch (200 in the notebook)
MaxFitM == 5                   \* the alpha fit on its own: no_filters in 2..MaxFitM
MaxFitSteps == 3               \* and at most MaxFitSteps runs of its training step

----------------------------------------------------------------------------
(* Exact rational arithmetic standing for the float arithmetic of Python   *)
(* and of the tensor runtime.                                              *)

Abs(x) == IF x < 0 THEN -x ELSE x

RECURSIVE GCD(_, _)
GCD(a, b) == IF b = 0 THEN a ELSE GCD(b, a % b)

Rat(n, d) ==
    LET s == IF d < 0 THEN -1 ELSE 1
        g == GCD(Abs(n), Abs(d))
    IN  <<(s * n) \div g, (s * d) \div g>>

Num(v) == <<v, 1>>
Zero == Num(0)
One == Num(1)
Half == Rat(1, 2)

Add(a, b) == Rat(a[1] * b[2] + b[1] * a[2], a[2] * b[2])
Neg(a) == <<-a[1], a[2]>>
Sub(a, b) == Add(a, Neg(b))
Mul(a, b) == Rat(a[1] * b[1], a[2] * b[2])
Div(a, b) == Rat(a[1] * b[2], a[2] * b[1])      \* b # 0
Less(a, b) == a[1] * b[2] < b[1] * a[2]
Leq(a, b) == a[1] * b[2] <= b[1] * a[2]

IsSquare(n) == n >= 0 /\ \E k \in 0..n : k * k = n
ISqrt(n) == CHOOSE k \in 0..n : k * k = n
HasSqrt(a) == IsSquare(a[1]) /\ IsSquare(a[2])
Sqrt(a) == <<ISqrt(a[1]), ISqrt(a[2])>>         \* tf.sqrt, exact where HasSqrt(a)

RECURSIVE SumTo(_, _)
\* sum of f[1..n] for a function f into the rationals
SumTo(f, n) == IF n = 0 THEN Zero ELSE Add(SumTo(f, n - 1), f[n])

RECURSIVE SumFrom0(_, _)
\* sum of f[0..n] for a function f into the rationals, n >= -1
SumFrom0(f, n) == IF n < 0 THEN Zero ELSE Add(SumFrom0(f, n - 1), f[n])

----------------------------------------------------------------------------
(* tf.sign: -1, 0 or +1; the sign of zero is zero.                         *)

sign(x) == IF x[1] < 0 THEN Num(-1) ELSE IF x[1] = 0 THEN Zero ELSE Num(1)

----------------------------------------------------------------------------
(* get_mean_stddev: tf.nn.moments over all axes, then the square root.     *)

Len1(t) == Cardinality(DOMAIN t)

moments(input_tensor) ==
    LET n == Len1(input_tensor)
        mean == Div(SumTo(input_tensor, n), Num(n))
        sq == [p \in 1..n |-> Mul(Sub(input_tensor[p], mean), Sub(input_tensor[p], mean))]
    IN  [mean |-> mean, variance |-> Div(SumTo(sq, n), Num(n))]

get_mean_stddev(input_tensor) ==
    LET m == moments(input_tensor)
    IN  [mean |-> m.mean, stddev |-> Sqrt(m.variance)]

----------------------------------------------------------------------------
(* get_shifted_stddev.  2./(no_filters - 1) is a Python float division: it *)
(* raises ZeroDivisionError when no_filters = 1.                           *)

SpreadFromOneMut(no_filters) ==
    [i \in 0..(no_filters - 1) |->
        Add(Num(-1), Mul(Div(Num(2), Num(no_filters - 1)), Num(i + 1)))]

spreaded_deviation(no_filters) ==
    [i \in 0..(no_filters - 1) |->
        Add(Num(-1), Mul(Div(Num(2), Num(no_filters - 1)), Num(i)))]

get_shifted_stddev_raises(no_filters) == no_filters - 1 = 0

get_shifted_stddev(stddev, no_filters) ==
    [i \in 0..(no_filters - 1) |-> Mul(spreaded_deviation(no_filters)[i], stddev)]

----------------------------------------------------------------------------
(* get_binary_filters: member i is sign(filters - mean + shifted_stddev_i).*)

GetBinaryFiltersSubtractShiftMut(convolution_filters, no_filters) ==
    LET ms == get_mean_stddev(convolution_filters)
        shifted_stddev == get_shifted_stddev(ms.stddev, no_filters)
        mean_adjusted_filters ==
            [p \in DOMAIN convolution_filters |-> Sub(convolution_filters[p], ms.mean)]
    IN  [i \in 0..(no_filters - 1) |->
            [p \in DOMAIN convolution_filters |->
                sign(Sub(mean_adjusted_filters[p], shifted_stddev[i]))]]

get_binary_filters(convolution_filters, no_filters) ==
    LET ms == get_mean_stddev(convolution_filters)
        shifted_stddev == get_shifted_stddev(ms.stddev, no_filters)
        mean_adjusted_filters ==
            [p \in DOMAIN convolution_filters |-> Sub(convolution_filters[p], ms.mean)]
    IN  [i \in 0..(no_filters - 1) |->
            [p \in DOMAIN convolution_filters |->
                sign(Add(mean_adjusted_filters[p], shifted_stddev[i]))]]

----------------------------------------------------------------------------
(* The filter banks of the model: every bank of 1..MaxFilterLen integer    *)
(* elements whose standard deviation is rational; get_binary_filters is    *)
(* also called on a longer bank that holds an element equal to its mean    *)
(* (mean 0, stddev 2).                                                     *)

FilterValues == {Num(v) : v \in (-MaxFilterValue)..MaxFilterValue}

MeanElementBank == [p \in 1..5 |-> Num(<<3, -3, 1, -1, 0>>[p])]

FilterBanks ==
    {w \in UNION {[1..n -> FilterValues] : n \in 1..MaxFilterLen} :
        HasSqrt(moments(w).variance)}

NoFrame == [kind |-> "none"]

NoCall == [kind |-> "none"]

\* the layer variables while no layer is under construction
LayerIdle ==
    /\ abc_args = [kind |-> "none"]
    /\ shift_parameters = <<>>
    /\ betas = <<>>
    /\ approx = <<>>
    /\ abc_ret = [kind |-> "none"]
    /\ call = NoCall

\* the alpha fit while no ApproxConv is fitted on its own
FitIdle == fit = [kind |-> "none"]

NoBatch == [split |-> "none", n |-> 0]

NoRun == [fetches |-> "none", feed |-> NoBatch]

\* the graph and session variables while no graph is being built
WfIdle ==
    /\ pc = "idle"
    /\ trainable = {}
    /\ initial_value = <<>>
    /\ edges = {}
    /\ var_list = <<>>
    /\ alphas_training_operations = <<>>
    /\ val = <<>>
    /\ epoch = 0
    /\ iteration = 0
    /\ op_index = 0
    /\ alpha_epoch = 0
    /\ batch = NoBatch
    /\ X_batch = NoBatch
    /\ last_run = NoRun
    /\ run_log = <<>>

----------------------------------------------------------------------------
(* SpecBin: get_binary_filters called on any bank with any no_filters.     *)

InitBin ==
    /\ bf_args \in [convolution_filters : FilterBanks \cup {MeanElementBank},
                    no_filters : 1..MaxM]
    /\ bf_frame = NoFrame
    /\ bf_result = [kind |-> "none"]
    /\ LayerIdle
    /\ WfIdle
    /\ FitIdle

GetBinaryFiltersReturn ==
    /\ bf_result.kind = "none"
    /\ ~get_shifted_stddev_raises(bf_args.no_filters)
    /\ LET ms == get_mean_stddev(bf_args.convolution_filters)
       IN  bf_frame' = [kind |-> "frame",
                        mean |-> ms.mean,
                        stddev |-> ms.stddev,
                        spreaded_deviation |-> spreaded_deviation(bf_args.no_filters),
                        shifted_stddev |-> get_shifted_stddev(ms.stddev, bf_args.no_filters)]
    /\ bf_result' = [kind |-> "tensor",
                     value |-> get_binary_filters(bf_args.convolution_filters,
                                                  bf_args.no_filters)]
    /\ UNCHANGED bf_args
    /\ UNCHANGED <<layerVars, fitVars>>
    /\ UNCHANGED wfVars

GetBinaryFiltersRaise ==
    /\ bf_result.kind = "none"
    /\ get_shifted_stddev_raises(bf_args.no_filters)
    /\ LET ms == get_mean_stddev(bf_args.convolution_filters)
       IN  bf_frame' = [kind |-> "raised", mean |-> ms.mean, stddev |-> ms.stddev]
    /\ bf_result' = [kind |-> "ZeroDivisionError"]
    /\ UNCHANGED bf_args
    /\ UNCHANGED <<layerVars, fitVars>>
    /\ UNCHANGED wfVars

NextBin == GetBinaryFiltersReturn \/ GetBinaryFiltersRaise

SpecBin == InitBin /\ [][NextBin]_vars

----------------------------------------------------------------------------
(* Claims about get_binary_filters and get_shifted_stddev (SpecBin).       *)

Returned == bf_result.kind = "tensor"

PlusMinusOne == {Num(1), Num(-1)}

\* C1: for any FilterBank and any M >= 2 every element of every member
\* returned by get_binary_filters is exactly +1 or -1, never 0.
C1_EveryElementPlusMinusOne ==
    (Returned /\ bf_args.no_filters >= 2) =>
        \A i \in DOMAIN bf_result.value :
            \A p \in DOMAIN bf_result.value[i] :
                bf_result.value[i][p] \in PlusMinusOne

\* C9: for every M >= 2 the offsets before scaling are
\* shift_i = -1 + i * 2/(M-1): shift_0 = -1, shift_{M-1} = +1, consecutive
\* offsets are evenly spaced and the offsets are symmetric around 0.
C9_ShiftOffsets ==
    (Returned /\ bf_args.no_filters >= 2) =>
        LET M == bf_args.no_filters
            mu == bf_frame.spreaded_deviation
        IN  /\ DOMAIN mu = 0..(M - 1)
            /\ mu[0] = Num(-1)
            /\ mu[M - 1] = Num(1)
            /\ \A i \in 0..(M - 1) : Mul(mu[i], Num(M - 1)) = Num(2 * i - (M - 1))
            /\ \A i \in 0..(M - 2) :
                    Mul(Sub(mu[i + 1], mu[i]), Num(M - 1)) = Num(2)
            /\ \A i \in 0..(M - 1) : mu[i] = Neg(mu[M - 1 - i])

C9_Witness ==
    /\ Returned
    /\ bf_args.no_filters = 3
    /\ bf_frame.spreaded_deviation[1] = Zero
    /\ bf_frame.stddev # Zero

\* C16: the members get_binary_filters returns are ordered element-wise by
\* their index: member_i[p] <= member_j[p] for every position p and i < j,
\* so along i = 0..M-1 a position leaves -1 at most once and reaches +1 at
\* most once, never going back; with a zero stddev all members are equal.
C16_MembersOrdered ==
    (Returned /\ bf_args.no_filters >= 2) =>
        LET B == bf_result.value
            M == bf_args.no_filters
            P == DOMAIN bf_args.convolution_filters
        IN  /\ \A p \in P : \A i, j \in 0..(M - 1) :
                  i < j => /\ Leq(B[i][p], B[j][p])
                           /\ B[i][p] = Num(1) => B[j][p] = Num(1)
                           /\ B[j][p] = Num(-1) => B[i][p] = Num(-1)
            /\ \A p \in P :
                  /\ Cardinality({i \in 0..(M - 2) :
                          B[i][p] = Num(-1) /\ B[i + 1][p] # Num(-1)}) <= 1
                  /\ Cardinality({i \in 0..(M - 2) :
                          B[i][p] # Num(1) /\ B[i + 1][p] = Num(1)}) <= 1
                  /\ Cardinality({i \in 0..(M - 2) :
                          Less(B[i + 1][p], B[i][p])}) = 0
            /\ bf_frame.stddev = Zero => \A i, j \in 0..(M - 1) : B[i] = B[j]

C16_Witness ==
    /\ Returned
    /\ bf_args.no_filters = 3
    /\ bf_frame.stddev # Zero
    /\ \E p, q \in DOMAIN bf_args.convolution_filters :
          /\ bf_result.value[0][p] = Num(-1)
          /\ bf_result.value[1][p] = Zero
          /\ bf_result.value[2][p] = Num(1)
          /\ bf_result.value[0][q] = Num(-1)
          /\ bf_result.value[1][q] = Num(1)

----------------------------------------------------------------------------
(* ApproxConv: the closure state of one instance and its forward callable. *)
(* tf.nn.conv2d is a sliding window over a one-dimensional input, with the *)
(* default strides (1, 1) and padding "VALID".                             *)

conv2d(input_tensor, filter) ==
    LET L == Len1(input_tensor)
        N == Len1(filter)
    IN  [p \in 1..(L - N + 1) |->
            SumTo([q \in 1..N |-> Mul(input_tensor[p + q - 1], filter[q])], N)]

\* one ApproxConv(...) call: the n-th instance of the graph, its alphas
\* Variable initialised to the random draw a
ApproxConv(no_filters, convolution_filters, convolution_biases, n, a) ==
    [no_filters |-> no_filters,
     filters |-> convolution_filters,
     biases |-> IF convolution_biases.kind = "None" THEN Zero
                ELSE convolution_biases.value,
     binary_filters |-> get_binary_filters(convolution_filters, no_filters),
     alphas |-> a,
     alphas_training_op |-> <<"alphas_training_op", n>>,
     alphas_loss |-> <<"alphas_loss", n>>]

\* the binary_filters tensor of an instance: derived from its filters, which
\* nothing updates while the layer is evaluated
binary_filters(inst) == inst.binary_filters

ApproxConvLayerBiasOnceMut(input_tensor, inst) ==
    LET B == binary_filters(inst)
        n_out == Len1(input_tensor) - Len1(inst.filters) + 1
    IN  [p \in 1..n_out |->
            Add(SumFrom0([index \in 0..(inst.no_filters - 1) |->
                            Mul(conv2d(input_tensor, B[index])[p], inst.alphas[index])],
                         inst.no_filters - 1),
                inst.biases)]

ApproxConvLayerFirstOnlyMut(input_tensor, inst) ==
    LET B == binary_filters(inst)
        n_out == Len1(input_tensor) - Len1(inst.filters) + 1
    IN  [p \in 1..n_out |->
            Mul(Add(conv2d(input_tensor, B[0])[p], inst.biases), inst.alphas[0])]

ApproxConvLayer(input_tensor, inst) ==
    LET B == binary_filters(inst)
        n_out == Len1(input_tensor) - Len1(inst.filters) + 1
        approxConv_outputs ==
            [index \in 0..(inst.no_filters - 1) |->
                LET this_conv == conv2d(input_tensor, B[index])
                IN  [p \in 1..n_out |-> Add(this_conv[p], inst.biases)]]
    IN  [p \in 1..n_out |->
            SumFrom0([index \in 0..(inst.no_filters - 1) |->
                        Mul(approxConv_outputs[index][p], inst.alphas[index])],
                     inst.no_filters - 1)]

----------------------------------------------------------------------------
(* ABC: the activation binarization and the K branches of ABCLayer.        *)

clip_by_value(x, lo, hi) == IF Less(x, lo) THEN lo ELSE IF Less(hi, x) THEN hi ELSE x

shifted_input(input_tensor, shift) ==
    [p \in DOMAIN input_tensor |-> clip_by_value(Add(input_tensor[p], shift), Zero, One)]

binarized_activation(input_tensor, shift) ==
    [p \in DOMAIN input_tensor |-> sign(Sub(shifted_input(input_tensor, shift)[p], Half))]

ABC_ApproxConv_callsPerBranchMut(no_ApproxConvLayers) ==
    IF no_ApproxConvLayers > 1 THEN no_ApproxConvLayers ELSE 1

\* the number of ApproxConv(...) calls one ABC(...) call makes
ABC_ApproxConv_calls(no_ApproxConvLayers) == 1

\* the instance whose ApproxConvLayer closure branch `index` calls
BranchApproxConv(index) == 1

ABCLayerUnweightedMut(input_tensor, shifts, bs, instances) ==
    LET K == Len1(bs)
        n_out == Len1(input_tensor) - Len1(instances[1].filters) + 1
    IN  IF K = 0 THEN <<>>
        ELSE [p \in 1..n_out |->
                SumFrom0([index \in 0..(K - 1) |->
                    ApproxConvLayer(binarized_activation(input_tensor, shifts[index]),
                                    instances[BranchApproxConv(index)])[p]], K - 1)]

\* ABCLayer(input_tensor) with the current shift_parameters, betas and
\* instances; with no branch the stacked tensor is empty and so is the sum
ABCLayer(input_tensor, shifts, bs, instances) ==
    LET K == Len1(bs)
        n_out == Len1(input_tensor) - Len1(instances[1].filters) + 1
        ApproxConv_layers ==
            [index \in 0..(K - 1) |->
                ApproxConvLayer(binarized_activation(input_tensor, shifts[index]),
                                instances[BranchApproxConv(index)])]
    IN  IF K = 0 THEN <<>>
        ELSE [p \in 1..n_out |->
                SumFrom0([index \in 0..(K - 1) |->
                            Mul(ApproxConv_layers[index][p], bs[index])], K - 1)]

----------------------------------------------------------------------------
(* The values the layer specification draws from.                          *)

\* filter banks handed to ABC
LayerBanks == {w \in FilterBanks : \A p \in DOMAIN w : Abs(w[p][1]) <= 1}

BiasArgs == {[kind |-> "None"], [kind |-> "array", value |-> Rat(1, 5)]}

\* values of an alphas Variable: tf.random_normal(mean=1.0, stddev=0.1)
\* draws, and what an optimizer step may leave
AlphaVectors(M) ==
    {[i \in 0..(M - 1) |-> Rat(9 + i, 10)], [i \in 0..(M - 1) |-> Rat(11 - 2 * i, 10)]}

\* values an optimizer step or assignment may leave in shift_parameters and
\* betas
ShiftBetaVectors(K) ==
    {[shift_parameters |-> [k \in 0..(K - 1) |-> Rat(k, 2)],
      betas |-> [k \in 0..(K - 1) |-> Rat(k + 1, 2)]],
     [shift_parameters |-> [k \in 0..(K - 1) |-> Rat(-1 - k, 5)],
      betas |-> [k \in 0..(K - 1) |-> Num(2 - k)]]}

ActivationValues == {Rat(-3, 10), Half, Rat(13, 10)}

InputTensors == [1..MaxFilterLen -> ActivationValues]

----------------------------------------------------------------------------
(* SpecLayer: ABC(...) is called once, its variables are updated any       *)
(* number of times, and then one of its callables is evaluated.            *)

InitLayer ==
    /\ bf_args = [kind |-> "none"]
    /\ bf_frame = NoFrame
    /\ bf_result = [kind |-> "none"]
    /\ abc_args \in [kind : {"ABC"},
                     convolution_filters : LayerBanks,
                     convolution_biases : BiasArgs,
                     no_binary_filters : 1..MaxM,
                     no_ApproxConvLayers : 0..MaxK]
    /\ shift_parameters = <<>>
    /\ betas = <<>>
    /\ approx = <<>>
    /\ abc_ret = [kind |-> "none"]
    /\ call = NoCall
    /\ WfIdle
    /\ FitIdle

\* ABC(...) runs to its return statement
ABC_Return ==
    /\ abc_ret.kind = "none"
    /\ ~get_shifted_stddev_raises(abc_args.no_binary_filters)
    /\ shift_parameters' = [k \in 0..(abc_args.no_ApproxConvLayers - 1) |-> Zero]
    /\ betas' = [k \in 0..(abc_args.no_ApproxConvLayers - 1) |-> One]
    /\ \E a \in AlphaVectors(abc_args.no_binary_filters) :
          approx' = [n \in 1..ABC_ApproxConv_calls(abc_args.no_ApproxConvLayers) |->
                        ApproxConv(abc_args.no_binary_filters,
                                   abc_args.convolution_filters,
                                   abc_args.convolution_biases, n, a)]
    /\ abc_ret' = [kind |-> "returned",
                   alphas_training_op |-> approx'[Len(approx')].alphas_training_op,
                   alphas_loss |-> approx'[Len(approx')].alphas_loss]
    /\ UNCHANGED <<abc_args, call>>
    /\ UNCHANGED <<bfVars, fitVars>>
    /\ UNCHANGED wfVars

\* ABC(...) ends in the ZeroDivisionError of get_shifted_stddev, after its
\* own two Variables were created
ABC_Raise ==
    /\ abc_ret.kind = "none"
    /\ get_shifted_stddev_raises(abc_args.no_binary_filters)
    /\ shift_parameters' = [k \in 0..(abc_args.no_ApproxConvLayers - 1) |-> Zero]
    /\ betas' = [k \in 0..(abc_args.no_ApproxConvLayers - 1) |-> One]
    /\ abc_ret' = [kind |-> "ZeroDivisionError"]
    /\ UNCHANGED <<abc_args, approx, call>>
    /\ UNCHANGED <<bfVars, fitVars>>
    /\ UNCHANGED wfVars

\* the ABCLayer callable applied to an input tensor and evaluated
CallABCLayer ==
    /\ abc_ret.kind = "returned"
    /\ call.kind = "none"
    /\ \E input_tensor \in InputTensors :
          call' = [kind |-> "ABCLayer",
                   input_tensor |-> input_tensor,
                   branches |->
                      [index \in 0..(abc_args.no_ApproxConvLayers - 1) |->
                          [instance |-> BranchApproxConv(index),
                           shifted_input |->
                              shifted_input(input_tensor, shift_parameters[index]),
                           binarized_activation |->
                              binarized_activation(input_tensor, shift_parameters[index])]],
                   output |-> ABCLayer(input_tensor, shift_parameters, betas, approx)]
    /\ UNCHANGED <<abc_args, shift_parameters, betas, approx, abc_ret>>
    /\ UNCHANGED <<bfVars, fitVars>>
    /\ UNCHANGED wfVars

\* the ApproxConvLayer callable of an instance applied to an input tensor
CallApproxConvLayer ==
    /\ abc_ret.kind = "returned"
    /\ call.kind = "none"
    /\ \E n \in DOMAIN approx, input_tensor \in InputTensors :
          call' = [kind |-> "ApproxConvLayer",
                   input_tensor |-> input_tensor,
                   instance |-> n,
                   output |-> ApproxConvLayer(input_tensor, approx[n])]
    /\ UNCHANGED <<abc_args, shift_parameters, betas, approx, abc_ret>>
    /\ UNCHANGED <<bfVars, fitVars>>
    /\ UNCHANGED wfVars

\* sess.run of the returned alphas_training_op: the alphas it owns move
RunAlphasTrainingOp ==
    /\ abc_ret.kind = "returned"
    /\ call.kind = "none"
    /\ \E n \in DOMAIN approx, a \in AlphaVectors(abc_args.no_binary_filters) :
          /\ approx[n].alphas_training_op = abc_ret.alphas_training_op
          /\ a # approx[n].alphas
          /\ approx' = [approx EXCEPT ![n].alphas = a]
    /\ UNCHANGED <<abc_args, shift_parameters, betas, abc_ret, call>>
    /\ UNCHANGED <<bfVars, fitVars>>
    /\ UNCHANGED wfVars

\* an update of the layer's shift_parameters and betas Variables
UpdateShiftBetas ==
    /\ abc_ret.kind = "returned"
    /\ call.kind = "none"
    /\ \E v \in ShiftBetaVectors(abc_args.no_ApproxConvLayers) :
          /\ shift_parameters' = v.shift_parameters
          /\ betas' = v.betas
    /\ <<shift_parameters', betas'>> # <<shift_parameters, betas>>
    /\ UNCHANGED <<abc_args, approx, abc_ret, call>>
    /\ UNCHANGED <<bfVars, fitVars>>
    /\ UNCHANGED wfVars

NextLayer ==
    \/ ABC_Return
    \/ ABC_Raise
    \/ CallABCLayer
    \/ CallApproxConvLayer
    \/ RunAlphasTrainingOp
    \/ UpdateShiftBetas

SpecLayer == InitLayer /\ [][NextLayer]_vars

----------------------------------------------------------------------------
(* Claims about the ABC and ApproxConv layers (SpecLayer).                 *)

ABCReturned == abc_ret.kind = "returned"

\* C2: in ABCLayer, for a branch whose shift parameter is 0, x is clipped
\* to [0, 1], a clipped value >= 0.5 maps to +1 and one < 0.5 to -1 (so
\* x = 0.5 gives +1), and no binarized activation is outside {-1, +1}.
C2_BinarizedActivation ==
    call.kind = "ABCLayer" =>
        \A index \in DOMAIN call.branches :
            shift_parameters[index] = Zero =>
                \A p \in DOMAIN call.input_tensor :
                    LET x == call.input_tensor[p]
                        clipped == IF Less(x, Zero) THEN Zero
                                   ELSE IF Less(One, x) THEN One ELSE x
                    IN  call.branches[index].binarized_activation[p] =
                            IF Leq(Half, clipped) THEN Num(1) ELSE Num(-1)

\* C3: the forward callable returned by ApproxConv computes
\* sum_i alpha_i * (conv(input, binary_filter_i) + bias) for the current
\* alphas, bias being 0 when none was supplied; the bias so contributes
\* bias * (alpha_0 + ... + alpha_{M-1}).
C3_ApproxConvForward ==
    call.kind = "ApproxConvLayer" =>
        LET inst == approx[call.instance]
            M == inst.no_filters
            B == inst.binary_filters
            bias == IF abc_args.convolution_biases.kind = "None" THEN Zero
                    ELSE abc_args.convolution_biases.value
            alpha_sum == SumFrom0(inst.alphas, M - 1)
        IN  /\ DOMAIN call.output =
                  1..(Len1(call.input_tensor) - Len1(inst.filters) + 1)
            /\ \A p \in DOMAIN call.output :
                  /\ call.output[p] =
                        SumFrom0([i \in 0..(M - 1) |->
                            Mul(inst.alphas[i],
                                Add(conv2d(call.input_tensor, B[i])[p], bias))], M - 1)
                  /\ call.output[p] =
                        Add(SumFrom0([i \in 0..(M - 1) |->
                                Mul(inst.alphas[i], conv2d(call.input_tensor, B[i])[p])],
                                M - 1),
                            Mul(bias, alpha_sum))

C3_Witness ==
    /\ call.kind = "ApproxConvLayer"
    /\ abc_args.convolution_biases.kind = "array"
    /\ abc_args.no_binary_filters = 3
    /\ SumFrom0(approx[call.instance].alphas, 2) # One
    /\ \E p \in DOMAIN call.output :
          /\ call.output[p] # Zero
          /\ conv2d(call.input_tensor, binary_filters(approx[call.instance])[0])[p] # Zero

\* C4: the forward callable returned by ABC computes
\* sum_k beta_k * A(sign(clip(input + shift_k, 0, 1) - 0.5)), A being the
\* forward callable of the wrapped ApproxConv; with the initial
\* shift_parameters (all 0) and betas (all 1) the output is K times the
\* single-branch output.
C4_ABCForward ==
    call.kind = "ABCLayer" =>
        LET K == abc_args.no_ApproxConvLayers
            H(s) == [q \in DOMAIN call.input_tensor |->
                        sign(Sub(clip_by_value(Add(call.input_tensor[q], s), Zero, One),
                                 Half))]
            A(t) == ApproxConvLayer(t, approx[1])
        IN  /\ \A p \in DOMAIN call.output :
                  call.output[p] =
                      SumFrom0([k \in 0..(K - 1) |->
                                  Mul(betas[k], A(H(shift_parameters[k]))[p])], K - 1)
            /\ K >= 1 => DOMAIN call.output = DOMAIN A(H(Zero))
            /\ ((\A k \in 0..(K - 1) : shift_parameters[k] = Zero /\ betas[k] = One)
                  => \A p \in DOMAIN call.output :
                        call.output[p] = Mul(Num(K), A(H(Zero))[p]))

C4_Witness ==
    /\ call.kind = "ABCLayer"
    /\ abc_args.no_ApproxConvLayers = 2
    /\ betas[0] # betas[1]
    /\ shift_parameters[0] # shift_parameters[1]
    /\ call.branches[0].binarized_activation # call.branches[1].binarized_activation
    /\ \E p \in DOMAIN call.output : call.output[p] # Zero

\* C5: one ABC layer constructs exactly one ApproxConv whatever K is: one
\* filters variable, one binary filter bank, one alphas with one training
\* step; every branch of every ABCLayer call uses that instance; the
\* training step and loss ABC returns are the ones ApproxConv returned.
C5_OneApproxConv ==
    /\ ABCReturned =>
          /\ Len(approx) = 1
          /\ abc_ret.alphas_training_op = approx[1].alphas_training_op
          /\ abc_ret.alphas_loss = approx[1].alphas_loss
          /\ Cardinality({approx[n].alphas_training_op : n \in DOMAIN approx}) = 1
    /\ call.kind = "ABCLayer" =>
          /\ DOMAIN call.branches = 0..(abc_args.no_ApproxConvLayers - 1)
          /\ \A index \in DOMAIN call.branches : call.branches[index].instance = 1

C5_Witness ==
    /\ ABCReturned
    /\ abc_args.no_ApproxConvLayers = MaxK
    /\ call.kind = "ABCLayer"
    /\ Cardinality(DOMAIN call.branches) = MaxK

\* C10: construction with an invalid configuration (M < 2, or K < 1) ends
\* in an error: no such ABC(...) call returns its triple.
C10_InvalidConfigurationFails ==
    ABCReturned =>
        /\ abc_args.no_binary_filters >= 2
        /\ abc_args.no_ApproxConvLayers >= 1

\* C11: the Approximate Convolution Layer with M = 1 can be built and
\* applied, and for every input its output equals
\* alpha_0 * conv(input, binary_filter_0) + bias exactly, binary_filter_0
\* being sign(FilterBank).
C11_SingleBinaryConvolution ==
    (abc_args.no_binary_filters = 1 /\ abc_ret.kind # "none") =>
        /\ ABCReturned
        /\ call.kind = "ApproxConvLayer" =>
              LET inst == approx[call.instance]
                  binary_filter_0 == [q \in DOMAIN inst.filters |-> sign(inst.filters[q])]
              IN  \A p \in DOMAIN call.output :
                      call.output[p] =
                          Add(Mul(inst.alphas[0],
                                  conv2d(call.input_tensor, binary_filter_0)[p]),
                              inst.biases)

\* C11 as amended: with M = 1 the layer cannot be built (ApproxConv ends in
\* the ZeroDivisionError of get_shifted_stddev, no alphas and no forward
\* callable exist); with M = 2, the smallest M it can be built with, the
\* output is alpha_0 * (conv(input, B_0) + bias) +
\* alpha_1 * (conv(input, B_1) + bias), B being get_binary_filters' members.
C11_SmallestM ==
    /\ (abc_args.no_binary_filters = 1 /\ abc_ret.kind # "none") =>
          /\ abc_ret.kind = "ZeroDivisionError"
          /\ approx = <<>>
          /\ call.kind = "none"
    /\ (abc_args.no_binary_filters = 2 /\ call.kind = "ApproxConvLayer") =>
          LET inst == approx[call.instance]
              B == get_binary_filters(abc_args.convolution_filters, 2)
              bias == IF abc_args.convolution_biases.kind = "None" THEN Zero
                      ELSE abc_args.convolution_biases.value
          IN  \A p \in DOMAIN call.output :
                  call.output[p] =
                      Add(Mul(inst.alphas[0],
                              Add(conv2d(call.input_tensor, B[0])[p], bias)),
                          Mul(inst.alphas[1],
                              Add(conv2d(call.input_tensor, B[1])[p], bias)))

C11_Witness ==
    /\ abc_args.no_binary_filters = 2
    /\ abc_args.convolution_biases.kind = "array"
    /\ call.kind = "ApproxConvLayer"
    /\ approx[call.instance].alphas[0] # One
    /\ \E p \in DOMAIN call.output :
          /\ call.output[p] # Zero
          /\ conv2d(call.input_tensor, binary_filters(approx[call.instance])[1])[p] # Zero

----------------------------------------------------------------------------
(* get_alphas: the loss of the alpha fit, its gradient and the steps of    *)
(* its AdamOptimizer.                                                      *)

\* weighted_sum_filters: reduce_sum(alphas * reshaped_binary_filters, axis=0)
weighted_sum_filters(B, alphas, no_filters) ==
    [p \in DOMAIN B[0] |->
        SumFrom0([i \in 0..(no_filters - 1) |-> Mul(alphas[i], B[i][p])], no_filters - 1)]

\* loss: reduce_mean(square(reshaped_convolution_filters - weighted_sum_filters))
alphas_loss(convolution_filters, B, alphas, no_filters) ==
    LET N == Len1(convolution_filters)
        ws == weighted_sum_filters(B, alphas, no_filters)
        error == [p \in 1..N |->
                    Mul(Sub(convolution_filters[p], ws[p]),
                        Sub(convolution_filters[p], ws[p]))]
    IN  Div(SumTo(error, N), Num(N))

\* the gradient of loss with respect to alphas:
\* d loss / d alphas[i] = mean_p(-2 * (filters[p] - weighted_sum[p]) * B[i][p])
alphas_gradient(convolution_filters, B, alphas, no_filters) ==
    LET N == Len1(convolution_filters)
        ws == weighted_sum_filters(B, alphas, no_filters)
    IN  [i \in 0..(no_filters - 1) |->
            Div(SumTo([p \in 1..N |->
                        Mul(Num(-2), Mul(Sub(convolution_filters[p], ws[p]), B[i][p]))], N),
                Num(N))]

\* Adam's first moment, beta1 = 0.9: m <- beta1 * m + (1 - beta1) * g
beta1 == Rat(9, 10)

adam_m(m, g) ==
    [i \in DOMAIN m |-> Add(Mul(beta1, m[i]), Mul(Sub(One, beta1), g[i]))]

\* Adam's update of a component is lr_t * m / (sqrt(v) + epsilon): zero where
\* m is zero, otherwise against the sign of m; `size` stands for its
\* magnitude lr_t * |m| / (sqrt(v) + epsilon), which is positive and not
\* rational in general
adam_apply(alphas, m, size) ==
    [i \in DOMAIN alphas |-> Sub(alphas[i], Mul(size, sign(m[i])))]

\* the magnitudes of an Adam update the model draws from
StepSizes == {Rat(1, 10), Rat(1, 20)}

----------------------------------------------------------------------------
(* SpecFit: one ApproxConv is built, its Variables are initialised and its *)
(* alphas_training_op is run step after step.                              *)

InitFit ==
    /\ bf_args = [kind |-> "none"]
    /\ bf_frame = NoFrame
    /\ bf_result = [kind |-> "none"]
    /\ LayerIdle
    /\ WfIdle
    /\ fit \in [kind : {"args"},
                 convolution_filters : FilterBanks,
                 no_filters : 2..MaxFitM]

\* ApproxConv(no_filters, convolution_filters): filters, binary_filters and
\* get_alphas' alphas Variable with its loss and training_op
FitApproxConv ==
    /\ fit.kind = "args"
    /\ \E a \in AlphaVectors(fit.no_filters) :
          fit' = [kind |-> "built",
                  inst |-> ApproxConv(fit.no_filters, fit.convolution_filters,
                                      [kind |-> "None"], 1, a)]
    /\ UNCHANGED <<bfVars, layerVars>>
    /\ UNCHANGED wfVars

\* sess.run(tf.global_variables_initializer()): alphas takes its random
\* draw, the optimizer's slots start at zero
FitGraphInit ==
    /\ fit.kind = "built"
    /\ fit' = [kind |-> "session",
               inst |-> fit.inst,
               initial_alphas |-> fit.inst.alphas,
               m |-> [i \in 0..(fit.inst.no_filters - 1) |-> Zero],
               steps |-> 0,
               loss_before |-> alphas_loss(fit.inst.filters, fit.inst.binary_filters,
                                           fit.inst.alphas, fit.inst.no_filters)]
    /\ UNCHANGED <<bfVars, layerVars>>
    /\ UNCHANGED wfVars

\* sess.run(alphas_training_op): one Adam step on alphas; loss_before keeps
\* the loss at the alphas the step started from
FitRunTrainingOp ==
    /\ fit.kind = "session"
    /\ fit.steps < MaxFitSteps
    /\ LET inst == fit.inst
           g == alphas_gradient(inst.filters, inst.binary_filters, inst.alphas,
                                inst.no_filters)
           m == adam_m(fit.m, g)
       IN  \E size \in StepSizes :
              fit' = [fit EXCEPT
                        !.inst.alphas = adam_apply(inst.alphas, m, size),
                        !.m = m,
                        !.steps = @ + 1,
                        !.loss_before = alphas_loss(inst.filters, inst.binary_filters,
                                                    inst.alphas, inst.no_filters)]
    /\ UNCHANGED <<bfVars, layerVars>>
    /\ UNCHANGED wfVars

NextFit == FitApproxConv \/ FitGraphInit \/ FitRunTrainingOp

SpecFit == InitFit /\ [][NextFit]_vars

----------------------------------------------------------------------------
(* Claims about the alpha fit (SpecFit).                                   *)

AllZeroBank(w) == \A p \in DOMAIN w : w[p] = Zero

\* sess.run(alphas_loss) in the current session
FitLoss ==
    alphas_loss(fit.inst.filters, fit.inst.binary_filters, fit.inst.alphas,
                fit.inst.no_filters)

\* C12: for an all-zero FilterBank (mean 0, stddev 0, identical binary
\* members), running the alpha-training step moves every alpha toward 0 from
\* its initial value near 1, and the alpha-fitting loss is non-increasing
\* from step to step.
C12_AlphasTowardZero ==
    (fit.kind = "session" /\ fit.steps >= 1 /\ AllZeroBank(fit.inst.filters)) =>
        /\ \A i, j \in DOMAIN fit.inst.binary_filters :
              fit.inst.binary_filters[i] = fit.inst.binary_filters[j]
        /\ \A i \in DOMAIN fit.inst.alphas :
              Less(Zero, fit.inst.alphas[i]) /\ Less(fit.inst.alphas[i], fit.initial_alphas[i])
        /\ Leq(FitLoss, fit.loss_before)

----------------------------------------------------------------------------
(* The custom graph (two ABC layers, two dense layers) and its training    *)
(* loop.  A Variable is <<name, layer>>; its value in the session is kept  *)
(* as the origin of its initial value and the number of optimizer updates  *)
(* that changed it since.                                                  *)

Layers == {1, 2}

\* the Variables one ABC(...) call creates, all with trainable=True
ABCVariables(l) ==
    {<<"shift_parameters", l>>, <<"betas", l>>, <<"filters", l>>,
     <<"biases", l>>, <<"alphas", l>>}

\* initial values: filters and biases start from the Variables W_conv, b_conv,
\* which start from the arrays saved from the first network
ABCInitialValues(l) ==
    [v \in {<<"W_conv", l>>, <<"b_conv", l>>} \cup ABCVariables(l) |->
        CASE v[1] \in {"W_conv", "filters"} -> <<"values", "W_conv", l>>
          [] v[1] \in {"b_conv", "biases"} -> <<"values", "b_conv", l>>
          [] v[1] = "shift_parameters" -> <<"constant", "0.", l>>
          [] v[1] = "betas" -> <<"constant", "1.", l>>
          [] v[1] = "alphas" -> <<"random_normal", "alphas", l>>]

Edge(src, dst, smooth) == [src |-> src, dst |-> dst, smooth |-> smooth]

\* what ABCLayer's output and the layer's alphas_loss are computed from; an edge
\* is smooth unless the value passes through tf.sign, whose gradient is zero
ABCEdges(l, input) ==
    {Edge(input, <<"conv", l>>, FALSE),
     Edge(<<"shift_parameters", l>>, <<"conv", l>>, FALSE),
     Edge(<<"filters", l>>, <<"conv", l>>, FALSE),
     Edge(<<"biases", l>>, <<"conv", l>>, TRUE),
     Edge(<<"alphas", l>>, <<"conv", l>>, TRUE),
     Edge(<<"betas", l>>, <<"conv", l>>, TRUE),
     Edge(<<"filters", l>>, <<"alphas_loss", l>>, TRUE),
     Edge(<<"alphas", l>>, <<"alphas_loss", l>>, TRUE),
     \* max_pool, batch_normalization, relu
     Edge(<<"conv", l>>, <<"h_conv", l>>, TRUE),
     Edge(<<"gamma", l>>, <<"h_conv", l>>, TRUE),
     Edge(<<"beta", l>>, <<"h_conv", l>>, TRUE)}

DenseVariables == {<<"W_fc1", 0>>, <<"b_fc1", 0>>, <<"W_fc2", 0>>, <<"b_fc2", 0>>}

DenseEdges ==
    {Edge(<<"h_conv", 2>>, <<"h_fc1", 0>>, TRUE),
     Edge(<<"W_fc1", 0>>, <<"h_fc1", 0>>, TRUE),
     Edge(<<"b_fc1", 0>>, <<"h_fc1", 0>>, TRUE),
     Edge(<<"h_fc1", 0>>, <<"y_conv", 0>>, TRUE),
     Edge(<<"W_fc2", 0>>, <<"y_conv", 0>>, TRUE),
     Edge(<<"b_fc2", 0>>, <<"y_conv", 0>>, TRUE),
     Edge(<<"y_conv", 0>>, <<"cross_entropy", 0>>, TRUE)}

\* get_alphas: minimize(loss, var_list=[alphas])
AlphasVarListDefaultMut(l, collection) == collection

alphas_var_list(l, collection) == {<<"alphas", l>>}

\* train_step: minimize(cross_entropy) with no var_list takes the graph's
\* trainable Variables
train_step_var_list(collection) == collection

RECURSIVE SmoothAncestors(_, _)
\* the nodes with a path of smooth edges into S
SmoothAncestors(S, E) ==
    LET T == S \cup {e.src : e \in {e \in E : e.dst \in S /\ e.smooth}}
    IN  IF T = S THEN S ELSE SmoothAncestors(T, E)

\* the Variables whose gradient of `loss` is not identically zero or None
Live(loss, E) == SmoothAncestors({loss}, E)

\* one step of an Adam optimizer: the Variables of its var_list that the
\* loss has a gradient for all move (d = 1) or, at a stationary point, stay
minimize_step(op, loss, d) ==
    [v \in DOMAIN val |->
        IF v \in var_list[op] /\ v \in Live(loss, edges)
        THEN [val[v] EXCEPT !.updates = @ + d]
        ELSE val[v]]

Built == pc \notin {"idle", "build_conv1", "build_conv2", "build_dense", "build_train_step"}

----------------------------------------------------------------------------
(* Spec: the custom graph is built, initialised and trained.               *)

Init ==
    /\ bf_args = [kind |-> "none"]
    /\ bf_frame = NoFrame
    /\ bf_result = [kind |-> "none"]
    /\ LayerIdle
    /\ FitIdle
    /\ pc = "build_conv1"
    /\ trainable = {}
    /\ initial_value = <<>>
    /\ edges = {}
    /\ var_list = <<>>
    /\ alphas_training_operations = <<>>
    /\ val = <<>>
    /\ epoch = 0
    /\ iteration = 0
    /\ op_index = 0
    /\ alpha_epoch = 0
    /\ batch = NoBatch
    /\ X_batch = NoBatch
    /\ last_run = NoRun
    /\ run_log = <<>>

\* "Convolution Layer l": W_conv, b_conv, the ABC(...) call, the layer applied
\* to its input, pooling, batch normalization and relu
BuildConvLayer(l, input, next) ==
    /\ pc = IF l = 1 THEN "build_conv1" ELSE "build_conv2"
    /\ trainable' = trainable \cup {<<"W_conv", l>>, <<"b_conv", l>>}
                        \cup ABCVariables(l) \cup {<<"gamma", l>>, <<"beta", l>>}
    /\ initial_value' = initial_value @@ ABCInitialValues(l)
                        @@ (<<"gamma", l>> :> <<"constant", "1.", l>>)
                        @@ (<<"beta", l>> :> <<"constant", "0.", l>>)
    /\ var_list' = var_list @@
          (<<"alphas_training_op", l>> :>
              alphas_var_list(l, {<<"W_conv", l>>, <<"b_conv", l>>} \cup ABCVariables(l)
                                    \cup trainable))
    /\ alphas_training_operations' =
          Append(alphas_training_operations, <<"alphas_training_op", l>>)
    /\ edges' = edges \cup ABCEdges(l, input)
    /\ pc' = next
    /\ UNCHANGED <<val, batch, X_batch, last_run, run_log>>
    /\ UNCHANGED loopVars
    /\ UNCHANGED <<bfVars, layerVars, fitVars>>

BuildConv1 == BuildConvLayer(1, <<"x_image", 0>>, "build_conv2")

BuildConv2 == BuildConvLayer(2, <<"h_conv", 1>>, "build_dense")

\* the two dense layers, dropout and the output layer
BuildDense ==
    /\ pc = "build_dense"
    /\ trainable' = trainable \cup DenseVariables
    /\ initial_value' = initial_value @@
          [v \in DenseVariables |->
              IF v[1] \in {"W_fc1", "W_fc2"} THEN <<"truncated_normal", v[1], 0>>
              ELSE <<"constant", "0.1", 0>>]
    /\ edges' = edges \cup DenseEdges
    /\ pc' = "build_train_step"
    /\ UNCHANGED <<var_list, alphas_training_operations, val, batch, X_batch, last_run, run_log>>
    /\ UNCHANGED loopVars
    /\ UNCHANGED <<bfVars, layerVars, fitVars>>

\* cross_entropy, train_step = AdamOptimizer(1e-4).minimize(cross_entropy),
\* accuracy and graph_init
BuildTrainStep ==
    /\ pc = "build_train_step"
    /\ var_list' = var_list @@ (<<"train_step", 0>> :> train_step_var_list(trainable))
    /\ pc' = "graph_init"
    /\ UNCHANGED <<trainable, initial_value, edges, alphas_training_operations,
                   val, batch, X_batch, last_run, run_log>>
    /\ UNCHANGED loopVars
    /\ UNCHANGED <<bfVars, layerVars, fitVars>>

\* the for loop over alphas_training_operations starts: its first operation,
\* alpha_epoch 0 (the list holds two operations and every loop bound is >= 1)
EnterAlphaRoundLastOpMut(round) ==
    /\ pc' = round
    /\ op_index' = Len(alphas_training_operations)
    /\ alpha_epoch' = 0

EnterAlphaRound(round) ==
    /\ pc' = round
    /\ op_index' = 1
    /\ alpha_epoch' = 0

\* sess.run(graph_init), then the first epoch and iteration begin
RunGraphInit ==
    /\ pc = "graph_init"
    /\ val' = [v \in trainable |-> [init |-> initial_value[v], updates |-> 0]]
    /\ last_run' = [fetches |-> "graph_init", feed |-> NoBatch]
    /\ run_log' = <<>>
    /\ epoch' = 0
    /\ iteration' = 1
    /\ EnterAlphaRound("alpha")
    /\ UNCHANGED <<batch, X_batch>>
    /\ UNCHANGED graphVars
    /\ UNCHANGED <<bfVars, layerVars, fitVars>>

\* sess.run(alpha_training_op) inside the two nested for loops; after the
\* last step of the last operation the statement `after` runs, with the
\* loop variable iteration at iteration_after
RunAlphaTrainingOp(round, after, iteration_after) ==
    /\ pc = round
    /\ \E d \in {0, 1} :
          val' = minimize_step(alphas_training_operations[op_index],
                               <<"alphas_loss", alphas_training_operations[op_index][2]>>,
                               d)
    /\ last_run' = [fetches |-> "alpha_training_op", feed |-> NoBatch]
    /\ run_log' = Append(run_log, alphas_training_operations[op_index])
    /\ IF alpha_epoch + 1 < alpha_training_epochs
       THEN /\ alpha_epoch' = alpha_epoch + 1
            /\ UNCHANGED <<pc, op_index, iteration>>
       ELSE IF op_index < Len(alphas_training_operations)
            THEN /\ op_index' = op_index + 1
                 /\ alpha_epoch' = 0
                 /\ UNCHANGED <<pc, iteration>>
            ELSE /\ pc' = after
                 /\ iteration' = iteration_after
                 /\ UNCHANGED <<op_index, alpha_epoch>>
    /\ UNCHANGED <<epoch, batch, X_batch>>
    /\ UNCHANGED graphVars
    /\ UNCHANGED <<bfVars, layerVars, fitVars>>

\* "Training alphas" at the head of a training iteration
RunAlphaInIteration ==
    /\ RunAlphaTrainingOp("alpha", "batch", iteration)

\* "Training alphas" at the end of an epoch; the validation loop follows
RunAlphaAtEpochEnd ==
    /\ RunAlphaTrainingOp("end_alpha", "val_batch", 1)

\* batch = mnist.train.next_batch(50)
TrainNextBatch ==
    /\ pc = "batch"
    /\ batch' = [split |-> "train", n |-> epoch * n_iterations + iteration]
    /\ pc' = "train"
    /\ UNCHANGED <<val, X_batch, last_run, run_log>>
    /\ UNCHANGED loopVars
    /\ UNCHANGED graphVars
    /\ UNCHANGED <<bfVars, layerVars, fitVars>>

\* sess.run([train_step, cross_entropy], feed_dict={x: batch[0], ...})
RunTrainStep ==
    /\ pc = "train"
    /\ \E d \in {0, 1} : val' = minimize_step(<<"train_step", 0>>, <<"cross_entropy", 0>>, d)
    /\ last_run' = [fetches |-> "train_step", feed |-> batch]
    /\ run_log' = <<>>
    /\ IF iteration < n_iterations
       THEN /\ iteration' = iteration + 1
            /\ EnterAlphaRound("alpha")
       ELSE /\ UNCHANGED iteration
            /\ EnterAlphaRound("end_alpha")
    /\ UNCHANGED <<epoch, batch, X_batch>>
    /\ UNCHANGED graphVars
    /\ UNCHANGED <<bfVars, layerVars, fitVars>>

\* X_batch, y_batch = mnist.validation.next_batch(batch_size)
ValidationNextBatch ==
    /\ pc = "val_batch"
    /\ X_batch' = [split |-> "validation",
                   n |-> epoch * n_validation_iterations + iteration]
    /\ pc' = "val_run"
    /\ UNCHANGED <<val, batch, last_run, run_log>>
    /\ UNCHANGED loopVars
    /\ UNCHANGED graphVars
    /\ UNCHANGED <<bfVars, layerVars, fitVars>>

\* sess.run([accuracy, cross_entropy], feed_dict={x: batch[0], y: batch[1], ...})
RunValidation ==
    /\ pc = "val_run"
    /\ last_run' = [fetches |-> "accuracy", feed |-> batch]
    /\ run_log' = Append(run_log, <<"accuracy", 0>>)
    /\ IF iteration < n_validation_iterations
       THEN /\ iteration' = iteration + 1
            /\ pc' = "val_batch"
       ELSE /\ pc' = "epoch_end"
            /\ UNCHANGED iteration
    /\ UNCHANGED <<val, epoch, op_index, alpha_epoch, batch, X_batch>>
    /\ UNCHANGED graphVars
    /\ UNCHANGED <<bfVars, layerVars, fitVars>>

NextEpochReinitMut ==
    /\ pc = "epoch_end"
    /\ IF epoch + 1 < n_epochs
       THEN /\ epoch' = epoch + 1
            /\ iteration' = 1
            /\ EnterAlphaRound("graph_init")
       ELSE /\ pc' = "done"
            /\ UNCHANGED loopVars
    /\ UNCHANGED <<val, batch, X_batch, last_run, run_log>>
    /\ UNCHANGED graphVars
    /\ UNCHANGED <<bfVars, layerVars, fitVars>>

\* the epoch's means are printed and the next epoch, if any, begins
NextEpoch ==
    /\ pc = "epoch_end"
    /\ IF epoch + 1 < n_epochs
       THEN /\ epoch' = epoch + 1
            /\ iteration' = 1
            /\ EnterAlphaRound("alpha")
       ELSE /\ pc' = "done"
            /\ UNCHANGED loopVars
    /\ UNCHANGED <<val, batch, X_batch, last_run, run_log>>
    /\ UNCHANGED graphVars
    /\ UNCHANGED <<bfVars, layerVars, fitVars>>

Next ==
    \/ BuildConv1
    \/ BuildConv2
    \/ BuildDense
    \/ BuildTrainStep
    \/ RunGraphInit
    \/ RunAlphaInIteration
    \/ TrainNextBatch
    \/ RunTrainStep
    \/ RunAlphaAtEpochEnd
    \/ ValidationNextBatch
    \/ RunValidation
    \/ NextEpoch

Spec == Init /\ [][Next]_vars

----------------------------------------------------------------------------
(* Claims about the optimizers of the custom graph (Spec).                 *)

AlphaStepOf(l) ==
    /\ pc \in {"alpha", "end_alpha"}
    /\ alphas_training_operations[op_index] = <<"alphas_training_op", l>>

\* C6: alphas are updated only by their dedicated optimizer: executing
\* train_step leaves the alphas of every ABC layer unchanged.
C6_TrainStepLeavesAlphas ==
    [][pc = "train" => \A l \in Layers : val'[<<"alphas", l>>] = val[<<"alphas", l>>]]_vars

\* C7: executing the alpha-training step of a layer changes only that
\* layer's alphas: filters, biases, shift_parameters, betas, the alphas of
\* the other layer and all dense-layer weights are left unchanged.
C7_AlphaStepFrame ==
    [][\A l \in Layers :
          AlphaStepOf(l) =>
              /\ DOMAIN val' = DOMAIN val
              /\ \A v \in DOMAIN val : v # <<"alphas", l>> => val'[v] = val[v]]_vars

C7_Witness ==
    /\ last_run.fetches = "alpha_training_op"
    /\ val[<<"alphas", 1>>].updates >= 2
    /\ val[<<"alphas", 2>>].updates >= 3
    /\ val[<<"W_fc1", 0>>].updates >= 1
    /\ val[<<"filters", 1>>].updates = 0

\* C8: the Bias of an ABC layer is constant once supplied from the
\* pretrained convolution layer: after any sequence of training steps its
\* value equals the value imported from the first network.
C8_BiasConstant ==
    (Built /\ pc # "graph_init") =>
        \A l \in Layers :
            val[<<"biases", l>>] = [init |-> <<"values", "b_conv", l>>, updates |-> 0]

----------------------------------------------------------------------------
(* Claims about the order of the runs in the training loop (Spec).         *)

Copies(x, n) == [k \in 1..n |-> x]

\* one pass of "Training alphas": layer 1's step alpha_training_epochs times,
\* then layer 2's
AlphaRound ==
    Copies(<<"alphas_training_op", 1>>, alpha_training_epochs)
        \o Copies(<<"alphas_training_op", 2>>, alpha_training_epochs)

ValidationRound == Copies(<<"accuracy", 0>>, n_validation_iterations)

\* C13: between any two consecutive executions of train_step, and before
\* the first one, each layer's alpha step is executed exactly
\* alpha_training_epochs times, layer 1's steps all before layer 2's; at the
\* end of each epoch the same steps are executed after the last train_step
\* and before the first validation evaluation.
C13_AlphaFitEveryIteration ==
    /\ pc = "train" => run_log = AlphaRound
    /\ (pc = "val_run" /\ iteration = 1) => run_log = AlphaRound

\* C13 as amended: the above holds between two consecutive executions of
\* train_step of the same epoch, before the first one of the first epoch and
\* at the end of each epoch; between the last train_step of an epoch and the
\* first of the next one the runs are an alpha round, the validation
\* evaluations and a second alpha round.
C13_AlphaFitWithinEpoch ==
    /\ (pc = "train" /\ (epoch = 0 \/ iteration > 1)) => run_log = AlphaRound
    /\ (pc = "train" /\ epoch > 0 /\ iteration = 1) =>
          run_log = AlphaRound \o ValidationRound \o AlphaRound
    /\ (pc = "val_run" /\ iteration = 1) => run_log = AlphaRound

C13_Witness ==
    /\ pc = "train"
    /\ epoch = 1
    /\ iteration = 1
    /\ Len(run_log) = 4 * alpha_training_epochs + n_validation_iterations
    /\ batch.split = "train"
    /\ last_run.fetches = "alpha_training_op"

\* C14: alphas are warm-started, never reset: their random initial value is
\* assigned exactly once, by the single graph_init run before the first
\* epoch, and every later step starts from the value the previous alpha
\* step (or train_step) left, never from a fresh initial value.
C14_WarmStart ==
    [][IF val = <<>>
       THEN val' # <<>> =>
               /\ pc = "graph_init"
               /\ last_run = NoRun
               /\ last_run'.fetches = "graph_init"
               /\ epoch' = 0
               /\ iteration' = 1
               /\ \A l \in Layers :
                     val'[<<"alphas", l>>] =
                         [init |-> <<"random_normal", "alphas", l>>, updates |-> 0]
       ELSE /\ pc # "graph_init"
            /\ pc' # "graph_init"
            /\ last_run' # last_run => last_run'.fetches # "graph_init"
            /\ \A l \in Layers :
                  /\ val'[<<"alphas", l>>].init = val[<<"alphas", l>>].init
                  /\ val'[<<"alphas", l>>].updates - val[<<"alphas", l>>].updates
                        \in {0, 1}]_vars

C14_Witness ==
    /\ epoch = 1
    /\ pc = "alpha"
    /\ last_run.fetches = "alpha_training_op"
    /\ \A l \in Layers : val[<<"alphas", l>>].init = <<"random_normal", "alphas", l>>
    /\ val[<<"alphas", 1>>].updates > 2 * alpha_training_epochs
    /\ val[<<"alphas", 2>>].updates > 2 * alpha_training_epochs + n_iterations

\* C15: each per-epoch validation evaluation computes accuracy and loss on
\* the batch drawn from the validation split in that same iteration, never
\* on a batch drawn from the training split.
C15_ValidationOnValidationBatch ==
    last_run.fetches = "accuracy" =>
        /\ last_run.feed = X_batch
        /\ last_run.feed.split = "validation"

=============================================================================
